---- MODULE Spec2Model ----
(***************************************************************************)
(* Token risk-score analysis: the master pipeline script                   *)
(* (full_risk_score_analysis.py, main) and the report viewer               *)
(* (dashboard.py: parse_filename, get_available_data, parse_risk_report,   *)
(* load_csv_data and the top-level script).                                *)
(***************************************************************************)
EXTENDS Integers, Sequences, FiniteSets, TLC

(***************************************************************************)
(* Bounds of the model.                                                    *)
(***************************************************************************)
MaxTokens == 2

MaxPrefix == 2

MaxFiles == 3

MaxLines == 2

MaxRows == 3

TokenAddrs == {"0xA", "0xB"}

VARIABLES
    \* ---- full_risk_score_analysis.py: main() ----
    TOKENS,        \* config.TOKENS, the configured token list
    config_valid,  \* what config.validate() reports for this configuration
    pc,            \* the statement main() is about to execute
    idx,           \* position in TOKENS of the token of the current iteration
    trace,         \* every call main() has made so far, with its outcome
    tempFiles,     \* temp_<token>_flows.csv files written by to_csv
    artifacts,     \* positions whose save_results returned (Artifact Pair written)
    exitStatus,    \* status of the process once it has exited
    \* ---- dashboard.py: parse_filename ----
    filename,      \* the argument, a sequence of lexemes
    parsed,        \* the returned triple
    fpc,
    \* ---- dashboard.py: get_available_data and the script ----
    folder_exists, \* os.path.exists(DATA_FOLDER)
    directory,     \* the filenames in DATA_FOLDER
    pending,       \* filenames of os.listdir not yet visited by the for loop
    data_tree,     \* Token -> Date -> {ftype: path}
    selected,      \* <<selected_token, selected_date>>
    files,         \* data_tree[selected_token][selected_date]
    loaded,        \* kinds whose loader (parse_risk_report, load_csv_data) ran
    messages,      \* st.warning / st.error texts shown
    vpc,
    \* ---- dashboard.py: parse_risk_report ----
    readable,      \* whether open(file_path) succeeds
    content,       \* the lines of the report file
    metrics,       \* the returned dictionary
    report_error,  \* whether st.error("Error parsing text report") was shown
    rpc,
    \* ---- dashboard.py: load_csv_data and the top-10 table ----
    has_risk_score,\* whether the table has a risk_score column
    csv_rows,      \* the rows of the file, risk_score as written
    csv_df,        \* the DataFrame load_csv_data returns
    top_10,        \* the rows shown in the table
    csv_error,     \* whether st.error("Error loading CSV") was shown
    tpc

pvars == <<TOKENS, config_valid, pc, idx, trace, tempFiles, artifacts, exitStatus>>

fvars == <<filename, parsed, fpc>>

vvars == <<folder_exists, directory, pending, data_tree, selected, files, loaded,
           messages, vpc>>

rvars == <<readable, content, metrics, report_error, rpc>>

tvars == <<has_risk_score, csv_rows, csv_df, top_10, csv_error, tpc>>

vars == <<pvars, fvars, vvars, rvars, tvars>>

(***************************************************************************)
(* Sequences over S of length at most n.                                   *)
(***************************************************************************)
SeqsUpTo(S, n) == UNION {[1..k -> S] : k \in 0..n}

(***************************************************************************)
(* main(): the pipeline orchestrator.                                      *)
(***************************************************************************)
Event(call, res) == [tok |-> idx, call |-> call, res |-> res]

Called(call, res) == trace' = Append(trace, Event(call, res))

Goto(label) == pc' = label /\ idx' = idx

\* The for statement of line 36 taking its next element: reached at the end
\* of the loop body and by every `continue`.
NextToken ==
    IF idx < Len(TOKENS)
    THEN pc' = "fetch_token_holders" /\ idx' = idx + 1
    ELSE pc' = "complete" /\ idx' = idx

\* An exception no handler of main() catches: the traceback ends the process.
Uncaught == pc' = "crashed" /\ idx' = idx /\ exitStatus' = 1

TempName(token_address) == <<"temp", token_address, "flows.csv">>

PInit ==
    /\ TOKENS \in SeqsUpTo(TokenAddrs, MaxTokens)
    /\ config_valid \in BOOLEAN
    /\ pc = "validate"
    /\ idx = 0
    /\ trace = <<>>
    /\ tempFiles = {}
    /\ artifacts = {}
    /\ exitStatus = 0

\* Mutant: the result of config.validate() is ignored.
Validate_NoExit ==
    /\ pc = "validate"
    /\ Goto("LiveDataFetcher")
    /\ UNCHANGED <<TOKENS, config_valid, trace, tempFiles, artifacts, exitStatus>>

\* if not config.validate(): sys.exit(1)
Validate ==
    /\ pc = "validate"
    /\ IF config_valid
       THEN Goto("LiveDataFetcher") /\ exitStatus' = exitStatus
       ELSE Goto("exited") /\ exitStatus' = 1
    /\ UNCHANGED <<TOKENS, config_valid, trace, tempFiles, artifacts>>

\* fetcher = LiveDataFetcher(config.ARKHAM_API_KEY), then the loop starts
InitFetcher ==
    /\ pc = "LiveDataFetcher"
    /\ Called("LiveDataFetcher", "ok")
    /\ NextToken
    /\ UNCHANGED <<TOKENS, config_valid, tempFiles, artifacts, exitStatus>>

\* Mutant: missing holder data abandons the token (`continue`).
FetchHolders_AbsentAbandons ==
    /\ pc = "fetch_token_holders"
    /\ \E r \in {"data", "absent"} :
         /\ Called("fetch_token_holders", r)
         /\ IF r = "data" THEN Goto("HolderAnalyzer") ELSE NextToken
    /\ UNCHANGED <<TOKENS, config_valid, tempFiles, artifacts, exitStatus>>

\* holders_data = fetcher.fetch_token_holders(...); if holders_data: ... else: print
\* The fetcher hands back a snapshot ("data") or nothing usable ("absent":
\* None or an empty collection, both false in `if holders_data`).
FetchHolders ==
    /\ pc = "fetch_token_holders"
    /\ \E r \in {"data", "absent"} :
         /\ Called("fetch_token_holders", r)
         /\ IF r = "data" THEN Goto("HolderAnalyzer") ELSE Goto("fetch_and_process_token")
    /\ UNCHANGED <<TOKENS, config_valid, tempFiles, artifacts, exitStatus>>

\* try: holder_analyzer = HolderAnalyzer(token_address, holders_data)
NewHolderAnalyzer ==
    /\ pc = "HolderAnalyzer"
    /\ \E r \in {"ok", "raise"} :
         /\ Called("HolderAnalyzer", r)
         /\ IF r = "ok" THEN Goto("run_analysis") ELSE Goto("fetch_and_process_token")
    /\ UNCHANGED <<TOKENS, config_valid, tempFiles, artifacts, exitStatus>>

\* holder_analyzer.run_analysis(fetcher)  except Exception: print
RunHolderAnalysis ==
    /\ pc = "run_analysis"
    /\ \E r \in {"ok", "raise"} : Called("run_analysis", r)
    /\ Goto("fetch_and_process_token")
    /\ UNCHANGED <<TOKENS, config_valid, tempFiles, artifacts, exitStatus>>

\* Mutant: only `user_flows is None` is tested; an empty table goes on.
FetchFlows_NoneOnly ==
    /\ pc = "fetch_and_process_token"
    /\ \E r \in {"data", "none", "empty"} :
         /\ Called("fetch_and_process_token", r)
         /\ IF r \in {"data", "empty"} THEN Goto("to_csv") ELSE NextToken
    /\ UNCHANGED <<TOKENS, config_valid, tempFiles, artifacts, exitStatus>>

\* user_flows = fetcher.fetch_and_process_token(token_address)
\* if user_flows is None or user_flows.empty: continue
FetchFlows ==
    /\ pc = "fetch_and_process_token"
    /\ \E r \in {"data", "none", "empty"} :
         /\ Called("fetch_and_process_token", r)
         /\ IF r = "data" THEN Goto("to_csv") ELSE NextToken
    /\ UNCHANGED <<TOKENS, config_valid, tempFiles, artifacts, exitStatus>>

\* user_flows.to_csv(f"outputs/data/processed/{temp_filename}", index=False)
WriteTempFlows ==
    /\ pc = "to_csv"
    /\ Called("to_csv", "ok")
    /\ tempFiles' = tempFiles \cup {TempName(TOKENS[idx])}
    /\ Goto("TransactionBasedWashTradingDetector")
    /\ UNCHANGED <<TOKENS, config_valid, artifacts, exitStatus>>

\* Mutant: the commented-out try/except of lines 74-80 restored.
WashStep_Guarded(call, next) ==
    /\ pc = call
    /\ \E r \in {"ok", "raise"} :
         /\ Called(call, r)
         /\ IF r = "ok" THEN Goto(next) ELSE NextToken
    /\ UNCHANGED <<TOKENS, config_valid, tempFiles, artifacts, exitStatus>>

\* The three wash-trading calls of lines 75-77; the try/except around them is
\* commented out, so an exception propagates out of main().
WashStep(call, next) ==
    /\ pc = call
    /\ \E r \in {"ok", "raise"} :
         /\ Called(call, r)
         /\ IF r = "ok" THEN Goto(next) /\ exitStatus' = exitStatus ELSE Uncaught
    /\ UNCHANGED <<TOKENS, config_valid, tempFiles, artifacts>>

NewWashDetector == WashStep("TransactionBasedWashTradingDetector", "extract_user_flows")

ExtractUserFlows == WashStep("extract_user_flows", "run_all_analyses")

RunAllAnalyses == WashStep("run_all_analyses", "BotDetector")

\* Mutant: the BotDetector constructor sits outside the try block.
NewBotDetector_Unguarded ==
    /\ pc = "BotDetector"
    /\ \E r \in {"ok", "raise"} :
         /\ Called("BotDetector", r)
         /\ IF r = "ok" THEN Goto("classify_wallets") /\ exitStatus' = exitStatus ELSE Uncaught
    /\ UNCHANGED <<TOKENS, config_valid, tempFiles, artifacts>>

\* try: bot_detector = BotDetector(...)  except Exception: print; continue
NewBotDetector ==
    /\ pc = "BotDetector"
    /\ \E r \in {"ok", "raise"} :
         /\ Called("BotDetector", r)
         /\ IF r = "ok" THEN Goto("classify_wallets") ELSE NextToken
    /\ UNCHANGED <<TOKENS, config_valid, tempFiles, artifacts, exitStatus>>

\* Mutant: a failed classification is retried from the constructor.
ClassifyWallets_Retry ==
    /\ pc = "classify_wallets"
    /\ \E r \in {"ok", "raise"} :
         /\ Called("classify_wallets", r)
         /\ IF r = "ok" THEN Goto("CombinedAnalyzer") ELSE Goto("BotDetector")
    /\ UNCHANGED <<TOKENS, config_valid, tempFiles, artifacts, exitStatus>>

\* bot_detector.classify_wallets(sample_size=sample)  except Exception: print; continue
ClassifyWallets ==
    /\ pc = "classify_wallets"
    /\ \E r \in {"ok", "raise"} :
         /\ Called("classify_wallets", r)
         /\ IF r = "ok" THEN Goto("CombinedAnalyzer") ELSE NextToken
    /\ UNCHANGED <<TOKENS, config_valid, tempFiles, artifacts, exitStatus>>

\* try: combiner = CombinedAnalyzer(wash_detector, bot_detector, token_address)
NewCombinedAnalyzer ==
    /\ pc = "CombinedAnalyzer"
    /\ \E r \in {"ok", "raise"} :
         /\ Called("CombinedAnalyzer", r)
         /\ IF r = "ok" THEN Goto("create_combined_analysis") ELSE NextToken
    /\ UNCHANGED <<TOKENS, config_valid, tempFiles, artifacts, exitStatus>>

\* combiner.create_combined_analysis()
CreateCombinedAnalysis ==
    /\ pc = "create_combined_analysis"
    /\ \E r \in {"ok", "raise"} :
         /\ Called("create_combined_analysis", r)
         /\ IF r = "ok" THEN Goto("save_results") ELSE NextToken
    /\ UNCHANGED <<TOKENS, config_valid, tempFiles, artifacts, exitStatus>>

\* combiner.save_results(config.OUTPUT_DIR, token_address)  except Exception: print
\* The loop body ends here either way.
SaveResults ==
    /\ pc = "save_results"
    /\ \E r \in {"ok", "raise"} :
         /\ Called("save_results", r)
         /\ artifacts' = IF r = "ok" THEN artifacts \cup {idx} ELSE artifacts
    /\ NextToken
    /\ UNCHANGED <<TOKENS, config_valid, tempFiles, exitStatus>>

PIdle ==
    /\ TOKENS = <<>>
    /\ config_valid = TRUE
    /\ pc = "idle"
    /\ idx = 0
    /\ trace = <<>>
    /\ tempFiles = {}
    /\ artifacts = {}
    /\ exitStatus = 0

(***************************************************************************)
(* parse_filename.  A filename is a sequence of lexemes: runs of letters   *)
(* ("ABC", "risk", "csv"), runs of digits ("20240101"), "_" and ".".  The  *)
(* pattern (.+)_risk_(analysis|report)_(\d{8}_\d{6})\.(csv|txt) is matched *)
(* with re.search: anywhere in the name, the first group greedy.           *)
(***************************************************************************)
D8 == {"20240101", "20251130"}

D6 == {"120000"}

FileTypes == {"analysis", "report"}

Extensions == {"csv", "txt"}

\* _risk_(analysis|report)_(\d{8}_\d{6})\.(csv|txt) matches f right after
\* its first p lexemes.
TailMatches(f, p) ==
    /\ p + 10 <= Len(f)
    /\ f[p + 1] = "_"
    /\ f[p + 2] = "risk"
    /\ f[p + 3] = "_"
    /\ f[p + 4] \in FileTypes
    /\ f[p + 5] = "_"
    /\ f[p + 6] \in D8
    /\ f[p + 7] = "_"
    /\ f[p + 8] \in D6
    /\ f[p + 9] = "."
    /\ f[p + 10] \in Extensions

NoMatch == [token |-> <<>>, date_str |-> <<>>, ftype |-> "None"]

\* (.+) takes at least one lexeme and, being greedy, as many as a match allows.
parse_filename(f) ==
    LET ps == {p \in 1..Len(f) : TailMatches(f, p)} IN
    IF ps = {}
    THEN NoMatch
    ELSE LET p == CHOOSE q \in ps : \A r \in ps : r <= q
         IN [token |-> SubSeq(f, 1, p),
             date_str |-> SubSeq(f, p + 6, p + 8),
             ftype |-> f[p + 4]]

ArtifactName(token, ftype, date, ext) ==
    token \o <<"_", "risk", "_", ftype, "_", date, "_", "120000", ".", ext>>

\* The names parse_filename is tried on: a prefix, the fixed part with each
\* component right or wrong, and possibly something after the extension.
Filenames ==
    {<<"foo", ".", "csv">>} \cup
    { pre \o <<"_", marker, "_", ftype, "_", date, "_", "120000", ".", ext>> \o suf :
        pre \in SeqsUpTo({"ABC", "_", "risk"}, MaxPrefix),
        marker \in {"risk", "RISK"},
        ftype \in {"analysis", "report", "summary"},
        date \in {"20240101", "2024"},
        ext \in {"csv", "txt", "json"},
        suf \in {<<>>, <<".", "bak">>} }

FIdle == filename = <<>> /\ parsed = NoMatch /\ fpc = "idle"

FInit ==
    /\ filename \in Filenames
    /\ parsed = NoMatch
    /\ fpc = "call"

ParseFilename ==
    /\ fpc = "call"
    /\ parsed' = parse_filename(filename)
    /\ fpc' = "returned"
    /\ UNCHANGED filename

(***************************************************************************)
(* get_available_data and the top-level script of dashboard.py.            *)
(***************************************************************************)
EmptyMap == <<>>

MapGet(m, k) == IF k \in DOMAIN m THEN m[k] ELSE EmptyMap

MapPut(m, k, v) == [x \in DOMAIN m \cup {k} |-> IF x = k THEN v ELSE m[x]]

\* data_map[token][date_str][ftype] = full_path, creating the inner
\* dictionaries that are missing (lines 47-53).
Register(m, token, date_str, ftype, full_path) ==
    LET byDate == MapGet(m, token)
        byType == MapGet(byDate, date_str)
    IN MapPut(m, token, MapPut(byDate, date_str, MapPut(byType, ftype, full_path)))

DirPool ==
    { ArtifactName(<<"ABC">>, "report", "20240101", "txt"),
      ArtifactName(<<"ABC">>, "analysis", "20240101", "csv"),
      ArtifactName(<<"ABC">>, "report", "20251130", "txt"),
      ArtifactName(<<"X", "_", "Y">>, "analysis", "20240101", "csv"),
      ArtifactName(<<"ABC">>, "report", "20240101", "csv"),
      <<"foo", ".", "csv">> }

MissingText(kind) ==
    IF kind = "report"
    THEN "Text report file missing for this selection."
    ELSE "CSV analysis file missing for this selection."

VIdle ==
    /\ folder_exists = FALSE
    /\ directory = {}
    /\ pending = {}
    /\ data_tree = EmptyMap
    /\ selected = <<>>
    /\ files = EmptyMap
    /\ loaded = {}
    /\ messages = {}
    /\ vpc = "idle"

VInit ==
    /\ folder_exists \in BOOLEAN
    /\ directory \in {d \in SUBSET DirPool : Cardinality(d) <= MaxFiles}
    /\ ~folder_exists => directory = {}
    /\ pending = {}
    /\ data_tree = EmptyMap
    /\ selected = <<>>
    /\ files = EmptyMap
    /\ loaded = {}
    /\ messages = {}
    /\ vpc = "get_available_data"

\* data_map = {}; if not os.path.exists(folder_path): return; files = os.listdir(..)
ListFolder ==
    /\ vpc = "get_available_data"
    /\ pending' = IF folder_exists THEN directory ELSE {}
    /\ vpc' = IF folder_exists /\ directory # {} THEN "for_f_in_files" ELSE "scanned"
    /\ UNCHANGED <<folder_exists, directory, data_tree, selected, files, loaded, messages>>

\* One iteration of `for f in files`; os.listdir gives the names in any order.
ScanFile ==
    /\ vpc = "for_f_in_files"
    /\ \E f \in pending :
         LET r == parse_filename(f) IN
         /\ data_tree' = IF r.token # <<>> /\ r.date_str # <<>>
                         THEN Register(data_tree, r.token, r.date_str, r.ftype, f)
                         ELSE data_tree
         /\ pending' = pending \ {f}
         /\ vpc' = IF pending = {f} THEN "scanned" ELSE "for_f_in_files"
    /\ UNCHANGED <<folder_exists, directory, selected, files, loaded, messages>>

\* if not tokens: st.warning(...); st.stop()
NoData ==
    /\ vpc = "scanned"
    /\ DOMAIN data_tree = {}
    /\ messages' = messages \cup {"No data files found in folder"}
    /\ vpc' = "stopped"
    /\ UNCHANGED <<folder_exists, directory, pending, data_tree, selected, files, loaded>>

\* The two select boxes and files = data_tree[selected_token][selected_date]
Select ==
    /\ vpc = "scanned"
    /\ \E selected_token \in DOMAIN data_tree :
         \E selected_date \in DOMAIN data_tree[selected_token] :
            /\ selected' = <<selected_token, selected_date>>
            /\ files' = data_tree[selected_token][selected_date]
    /\ vpc' = "files_detected"
    /\ UNCHANGED <<folder_exists, directory, pending, data_tree, loaded, messages>>

\* st.caption(... files['report'] ...); st.caption(... files['analysis'] ...):
\* subscripting a dictionary with a key it does not hold raises KeyError, which
\* nothing catches.
FilesDetected ==
    /\ vpc = "files_detected"
    /\ vpc' = IF "report" \in DOMAIN files /\ "analysis" \in DOMAIN files
              THEN "load_data"
              ELSE "KeyError"
    /\ UNCHANGED <<folder_exists, directory, pending, data_tree, selected, files, loaded,
                   messages>>

\* if files['report']: parse_risk_report(..) else: st.error(..)
\* if files['analysis']: load_csv_data(..) else: st.error(..)
LoadData ==
    /\ vpc = "load_data"
    /\ loaded' = {k \in FileTypes : files[k] # <<>>}
    /\ messages' = messages \cup {MissingText(k) : k \in {t \in FileTypes : files[t] = <<>>}}
    /\ vpc' = "rendered"
    /\ UNCHANGED <<folder_exists, directory, pending, data_tree, selected, files>>

(***************************************************************************)
(* parse_risk_report.  A report is a sequence of labeled lines; a line is  *)
(* the metric its label names and the text after the label.                *)
(***************************************************************************)
ScoreKeys == <<"global_health", "global_risk", "concentration_risk", "bot_risk",
               "wash_trading_risk">>

CountKeys == <<"dist_critical", "dist_high", "dist_medium", "dist_low">>

\* The metrics in the order parse_risk_report searches for them.
Keys == ScoreKeys \o CountKeys

KeySet == {Keys[i] : i \in 1..Len(Keys)}

IsScore(k) == \E i \in 1..Len(ScoreKeys) : ScoreKeys[i] = k

\* What [\d\.]+ (scores) and \d+ (counts) match at the start of the text.
GroupMatches(k, text) ==
    IF IsScore(k) THEN text \in {"40.0", "12.5."} ELSE text \in {"7"}

\* float(..) and int(..) of the matched group: <<value>>, or <<>> for ValueError.
Converted(k, text) ==
    CASE text = "40.0" -> <<40>>
      [] text = "7" -> <<7>>
      [] OTHER -> <<>>

ReportLines ==
    {[key |-> k, text |-> t] : k \in {ScoreKeys[i] : i \in 1..Len(ScoreKeys)},
                               t \in {"40.0", "12.5.", "n/a"}}
    \cup
    {[key |-> k, text |-> t] : k \in {CountKeys[i] : i \in 1..Len(CountKeys)},
                               t \in {"7", "many"}}

Defaults == [k \in KeySet |-> 0]

\* re.search for the metric's pattern: the first line it matches, 0 for None.
Search(c, k) ==
    LET hits == {j \in 1..Len(c) : c[j].key = k /\ GroupMatches(k, c[j].text)} IN
    IF hits = {} THEN 0 ELSE CHOOSE j \in hits : \A h \in hits : j <= h

\* The body of the try block from metric i on: the first conversion that
\* raises ends it, keeping what was assigned before.
RECURSIVE ParseFrom(_, _, _)
ParseFrom(c, i, m) ==
    IF i > Len(Keys)
    THEN [metrics |-> m, error |-> FALSE]
    ELSE LET k == Keys[i]
             j == Search(c, k)
         IN IF j = 0
            THEN ParseFrom(c, i + 1, m)
            ELSE IF Converted(k, c[j].text) = <<>>
                 THEN [metrics |-> m, error |-> TRUE]
                 ELSE ParseFrom(c, i + 1, [m EXCEPT ![k] = Converted(k, c[j].text)[1]])

parse_risk_report(can_open, c) ==
    IF can_open
    THEN ParseFrom(c, 1, Defaults)
    ELSE [metrics |-> Defaults, error |-> TRUE]

RIdle ==
    /\ readable = TRUE
    /\ content = <<>>
    /\ metrics = Defaults
    /\ report_error = FALSE
    /\ rpc = "idle"

RInit ==
    /\ readable \in BOOLEAN
    /\ content \in SeqsUpTo(ReportLines, MaxLines)
    /\ metrics = Defaults
    /\ report_error = FALSE
    /\ rpc = "call"

ParseRiskReport ==
    /\ rpc = "call"
    /\ LET r == parse_risk_report(readable, content) IN
         /\ metrics' = r.metrics
         /\ report_error' = r.error
    /\ rpc' = "returned"
    /\ UNCHANGED <<readable, content>>

(***************************************************************************)
(* load_csv_data and the top-10 table of the script.                       *)
(***************************************************************************)
TopN == 10

Cells == {"95", "80", "abc"}

\* pd.to_numeric(.., errors='coerce') of one cell: <<number>> when the text
\* is the decimal form of a score (0 to 100), <<>> (NaN) otherwise.
to_numeric(cell) ==
    LET ns == {n \in 0..100 : ToString(n) = cell} IN
    IF ns = {} THEN <<>> ELSE <<CHOOSE n \in ns : TRUE>>

\* A table of fifteen wallets, more than the top-10 table shows, two of them
\* with equal scores.
FifteenScores == <<99, 95, 95, 80, 79, 78, 77, 76, 75, 74, 73, 72, 71, 70, 69>>

FifteenCells == [i \in 1..Len(FifteenScores) |-> ToString(FifteenScores[i])]

\* The tables read: every short table over Cells, the fifteen-wallet table,
\* and that table with one cell that is no number.
Tables ==
    {[i \in 1..Len(cs) |-> [wallet |-> i, risk_score |-> cs[i]]] :
        cs \in SeqsUpTo(Cells, MaxRows)
              \cup {FifteenCells, [FifteenCells EXCEPT ![4] = "abc"]}}

load_csv_data(has_column, rows) ==
    IF has_column
    THEN [df |-> [i \in 1..Len(rows) |->
                    [wallet |-> rows[i].wallet,
                     risk_score |-> to_numeric(rows[i].risk_score)]],
          error |-> FALSE]
    ELSE [df |-> <<>>, error |-> TRUE]

\* Row a has to come before row b in a descending sort with NaN last.
Outranks(a, b) ==
    /\ a.risk_score # <<>>
    /\ b.risk_score = <<>> \/ a.risk_score[1] > b.risk_score[1]

\* The rows of S (positions in df) that no other row of S has to precede.
Maximal(df, S) == {i \in S : \A j \in S : ~Outranks(df[j], df[i])}

\* Every arrangement of the rows of S in which no row comes after one it has
\* to precede.
RECURSIVE Arrangements(_, _)
Arrangements(df, S) ==
    IF S = {}
    THEN {<<>>}
    ELSE UNION {{<<df[i]>> \o rest : rest \in Arrangements(df, S \ {i})} :
                   i \in Maximal(df, S)}

\* sort_values(by='risk_score', ascending=False) with the default
\* kind='quicksort', which is not stable: every descending arrangement with
\* the NaN rows last is a possible result.
sort_values(df) == Arrangements(df, 1..Len(df))

head(df, n) == SubSeq(df, 1, IF Len(df) < n THEN Len(df) ELSE n)

TIdle ==
    /\ has_risk_score = TRUE
    /\ csv_rows = <<>>
    /\ csv_df = <<>>
    /\ top_10 = <<>>
    /\ csv_error = FALSE
    /\ tpc = "idle"

TInit ==
    /\ has_risk_score \in BOOLEAN
    /\ csv_rows \in Tables
    /\ csv_df = <<>>
    /\ top_10 = <<>>
    /\ csv_error = FALSE
    /\ tpc = "load_csv_data"

LoadCsvData ==
    /\ tpc = "load_csv_data"
    /\ LET r == load_csv_data(has_risk_score, csv_rows) IN
         /\ csv_df' = r.df
         /\ csv_error' = r.error
    /\ tpc' = "loaded"
    /\ UNCHANGED <<has_risk_score, csv_rows, top_10>>

\* if not csv_df.empty: top_10 = csv_df.sort_values(..).head(10); st.dataframe(..)
ShowTop10 ==
    /\ tpc = "loaded"
    /\ IF csv_df # <<>>
       THEN /\ \E sorted \in sort_values(csv_df) : top_10' = head(sorted, TopN)
            /\ tpc' = "shown"
       ELSE /\ top_10' = top_10
            /\ tpc' = "no_table"
    /\ UNCHANGED <<has_risk_score, csv_rows, csv_df, csv_error>>

(***************************************************************************)
(* Specifications.                                                         *)
(***************************************************************************)
\* The variables of the parts that a specification leaves alone.
ViewerIdle == UNCHANGED <<fvars, vvars, rvars, tvars>>

PipelineIdle == UNCHANGED pvars

Init == PInit /\ FIdle /\ VIdle /\ RIdle /\ TIdle

Next ==
    \/ Validate /\ ViewerIdle
    \/ InitFetcher /\ ViewerIdle
    \/ FetchHolders /\ ViewerIdle
    \/ NewHolderAnalyzer /\ ViewerIdle
    \/ RunHolderAnalysis /\ ViewerIdle
    \/ FetchFlows /\ ViewerIdle
    \/ WriteTempFlows /\ ViewerIdle
    \/ NewWashDetector /\ ViewerIdle
    \/ ExtractUserFlows /\ ViewerIdle
    \/ RunAllAnalyses /\ ViewerIdle
    \/ NewBotDetector /\ ViewerIdle
    \/ ClassifyWallets /\ ViewerIdle
    \/ NewCombinedAnalyzer /\ ViewerIdle
    \/ CreateCombinedAnalysis /\ ViewerIdle
    \/ SaveResults /\ ViewerIdle

Spec == Init /\ [][Next]_vars

FilenameInit == FInit /\ PIdle /\ VIdle /\ RIdle /\ TIdle

FilenameNext == ParseFilename /\ PipelineIdle /\ UNCHANGED <<vvars, rvars, tvars>>

SpecFilename == FilenameInit /\ [][FilenameNext]_vars

ViewerInit == VInit /\ PIdle /\ FIdle /\ RIdle /\ TIdle

ViewerNext ==
    \/ ListFolder /\ PipelineIdle /\ UNCHANGED <<fvars, rvars, tvars>>
    \/ ScanFile /\ PipelineIdle /\ UNCHANGED <<fvars, rvars, tvars>>
    \/ NoData /\ PipelineIdle /\ UNCHANGED <<fvars, rvars, tvars>>
    \/ Select /\ PipelineIdle /\ UNCHANGED <<fvars, rvars, tvars>>
    \/ FilesDetected /\ PipelineIdle /\ UNCHANGED <<fvars, rvars, tvars>>
    \/ LoadData /\ PipelineIdle /\ UNCHANGED <<fvars, rvars, tvars>>

SpecViewer == ViewerInit /\ [][ViewerNext]_vars

ReportInit == RInit /\ PIdle /\ FIdle /\ VIdle /\ TIdle

ReportNext == ParseRiskReport /\ PipelineIdle /\ UNCHANGED <<fvars, vvars, tvars>>

SpecReport == ReportInit /\ [][ReportNext]_vars

TableInit == TInit /\ PIdle /\ FIdle /\ VIdle /\ RIdle

TableNext ==
    \/ LoadCsvData /\ PipelineIdle /\ UNCHANGED <<fvars, vvars, rvars>>
    \/ ShowTop10 /\ PipelineIdle /\ UNCHANGED <<fvars, vvars, rvars>>

SpecTable == TableInit /\ [][TableNext]_vars

FairSpec == Init /\ [][Next]_vars /\ WF_vars(Next)

(***************************************************************************)
(* Vocabulary of the pipeline claims.                                      *)
(***************************************************************************)
HolderCalls == {"HolderAnalyzer", "run_analysis"}

WashCalls == {"TransactionBasedWashTradingDetector", "extract_user_flows",
              "run_all_analyses"}

BotCalls == {"BotDetector", "classify_wallets"}

CombinedCalls == {"CombinedAnalyzer", "create_combined_analysis", "save_results"}

\* The order in which the statements of the loop body appear.
Rank ==
    [c \in {"LiveDataFetcher"} \cup HolderCalls \cup WashCalls \cup BotCalls
            \cup CombinedCalls
            \cup {"fetch_token_holders", "fetch_and_process_token", "to_csv"} |->
        CASE c = "LiveDataFetcher" -> 0
          [] c = "fetch_token_holders" -> 1
          [] c = "HolderAnalyzer" -> 2
          [] c = "run_analysis" -> 3
          [] c = "fetch_and_process_token" -> 4
          [] c = "to_csv" -> 5
          [] c = "TransactionBasedWashTradingDetector" -> 6
          [] c = "extract_user_flows" -> 7
          [] c = "run_all_analyses" -> 8
          [] c = "BotDetector" -> 9
          [] c = "classify_wallets" -> 10
          [] c = "CombinedAnalyzer" -> 11
          [] c = "create_combined_analysis" -> 12
          [] c = "save_results" -> 13]

Positions == 1..Len(TOKENS)

Terminated == pc \in {"complete", "crashed", "exited"}

Has(k, call) == \E j \in 1..Len(trace) : trace[j].tok = k /\ trace[j].call = call

HasAny(k, calls) == \E j \in 1..Len(trace) : trace[j].tok = k /\ trace[j].call \in calls

HasRes(k, call, res) ==
    \E j \in 1..Len(trace) : trace[j] = [tok |-> k, call |-> call, res |-> res]

\* The iteration of position k is over: the loop moved on or the process ended.
Left(k) == idx > k \/ Terminated

\* The Wash-Trading Detector stage raised while a token of lo..hi was being
\* processed.
WashRaisedIn(lo, hi) ==
    \E j \in 1..Len(trace) :
        /\ trace[j].tok \in lo..hi
        /\ trace[j].res = "raise"
        /\ trace[j].call \in WashCalls

\* Each later stage of position k was entered whenever the one before it returned.
StagesAttempted(k) ==
    /\ Has(k, "to_csv")
    /\ HasRes(k, "to_csv", "ok") => Has(k, "TransactionBasedWashTradingDetector")
    /\ HasRes(k, "run_all_analyses", "ok") => Has(k, "BotDetector")
    /\ HasRes(k, "classify_wallets", "ok") => Has(k, "CombinedAnalyzer")

HolderAbsentPart(a) ==
    /\ ~HasAny(a, HolderCalls)
    /\ Left(a) =>
         /\ Has(a, "fetch_and_process_token")
         /\ HasRes(a, "fetch_and_process_token", "data") => StagesAttempted(a)

FetchCalls == {"fetch_token_holders", "fetch_and_process_token"}

IsFetch(e) == e.call \in FetchCalls

\* The fetches alone, in the order they were made: holders then flows of
\* position 1, holders then flows of position 2, ...
FetchesInOrder ==
    LET fs == SelectSeq(trace, IsFetch) IN
    \A j \in 1..Len(fs) :
        /\ fs[j].tok = (j + 1) \div 2
        /\ fs[j].call = IF j % 2 = 1 THEN "fetch_token_holders"
                                     ELSE "fetch_and_process_token"

C2_Safety ==
    (config_valid /\ ~WashRaisedIn(1, Len(TOKENS))) =>
        /\ pc \notin {"crashed", "exited"}
        /\ FetchesInOrder
        /\ pc = "complete" =>
             \A k \in Positions :
                 Has(k, "fetch_token_holders") /\ Has(k, "fetch_and_process_token")

Abandons(e) ==
    \/ e.call = "fetch_and_process_token" /\ e.res \in {"none", "empty"}
    \/ e.call \in BotCalls /\ e.res = "raise"

(***************************************************************************)
(* C3: once the transfer-flow fetch of a token returns None or an empty    *)
(* table, or its Bot Detector stage raises, no further call is made for    *)
(* that token (after absent flows: no temporary file, no wash-trading, no  *)
(* bot detection; in both cases no combined scoring and no Artifact Pair), *)
(* and the loop goes to the next token.                                    *)
(***************************************************************************)
C3_Theorem ==
    \A j \in 1..Len(trace) :
        Abandons(trace[j]) =>
            LET k == trace[j].tok IN
            /\ \A i \in (j + 1)..Len(trace) : trace[i].tok # k
            /\ trace[j].call = "fetch_and_process_token" =>
                 ~HasAny(k, {"to_csv"} \cup WashCalls \cup BotCalls)
            /\ ~HasAny(k, CombinedCalls)
            /\ k \notin artifacts
            /\ IF j < Len(trace)
               THEN trace[j + 1].tok = k + 1 /\ trace[j + 1].call = "fetch_token_holders"
               ELSE IF k < Len(TOKENS)
                    THEN pc = "fetch_token_holders" /\ idx = k + 1
                    ELSE pc = "complete"

C3_Witness ==
    /\ pc = "complete"
    /\ HasRes(1, "fetch_and_process_token", "empty")
    /\ HasRes(2, "classify_wallets", "raise")
    /\ tempFiles # {}

C5_Theorem ==
    /\ \A j \in 1..(Len(trace) - 1) :
         LET e == trace[j]
             f == trace[j + 1]
         IN \/ f.tok = e.tok /\ Rank[f.call] > Rank[e.call]
            \/ f.tok = e.tok + 1 /\ f.call = "fetch_token_holders"
    /\ (pc \in DOMAIN Rank /\ trace # <<>>) =>
         LET e == trace[Len(trace)]
         IN \/ idx = e.tok /\ Rank[pc] > Rank[e.call]
            \/ idx = e.tok + 1 /\ pc = "fetch_token_holders"

C5_Witness ==
    /\ pc = "complete"
    /\ artifacts = {1, 2}
    /\ HasRes(1, "run_analysis", "ok")

(***************************************************************************)
(* C6: with an invalid configuration main() exits with a non-zero status   *)
(* and nothing else happens: no fetcher is constructed, no fetch is made,  *)
(* no temporary file and no Artifact Pair is written.                      *)
(***************************************************************************)
C6_Theorem ==
    ~config_valid =>
        /\ pc \in {"validate", "exited"}
        /\ pc = "exited" => exitStatus # 0
        /\ trace = <<>>
        /\ idx = 0
        /\ tempFiles = {}
        /\ artifacts = {}

C6_Witness == ~config_valid /\ pc = "exited" /\ Len(TOKENS) >= 1 /\ exitStatus = 1

(***************************************************************************)
(* C7 as stated: for a selection of which only one of the two files exists *)
(* the script raises no unhandled exception at the 'report' and 'analysis' *)
(* lookups, shows the warning for the missing file and loads the file that *)
(* is present.                                                             *)
(***************************************************************************)
C7_Original ==
    (vpc \in {"KeyError", "load_data", "rendered"} /\ Cardinality(DOMAIN files) = 1) =>
        /\ vpc # "KeyError"
        /\ vpc = "rendered" =>
             /\ loaded = DOMAIN files
             /\ \A k \in FileTypes \ DOMAIN files : MissingText(k) \in messages

\* The filename follows <Token>_risk_<kind>_<YYYYMMDD_HHMMSS>.<ext> with
\* report paired with txt and analysis with csv.
FollowsConvention(f) ==
    /\ Len(f) > 10
    /\ TailMatches(f, Len(f) - 10)
    /\ <<f[Len(f) - 6], f[Len(f)]>> \in {<<"report", "txt">>, <<"analysis", "csv">>}

(***************************************************************************)
(* C9 as stated: parse_filename returns (Token, Timestamp, Kind), the      *)
(* Token in full, for exactly the filenames that follow the convention     *)
(* (report with txt, analysis with csv), and (None, None, None) for every  *)
(* other filename.                                                         *)
(***************************************************************************)
C9_Original ==
    fpc = "returned" =>
        parsed = IF FollowsConvention(filename)
                 THEN [token |-> SubSeq(filename, 1, Len(filename) - 10),
                       date_str |-> SubSeq(filename, Len(filename) - 4, Len(filename) - 2),
                       ftype |-> filename[Len(filename) - 6]]
                 ELSE NoMatch

\* The lines of the report that carry the label of metric k.
LinesOf(k) == {j \in 1..Len(content) : content[j].key = k}

(***************************************************************************)
(* C8 as stated: parse_risk_report returns its dictionary in every case,   *)
(* a metric without labeled line has its default 0, and a metric whose     *)
(* labeled line is present has the value of that line, whichever other     *)
(* lines are absent or fail to parse.                                      *)
(***************************************************************************)
C8_Original ==
    (rpc = "returned" /\ readable) =>
        \A k \in KeySet :
            /\ LinesOf(k) = {} => metrics[k] = 0
            /\ \A j \in LinesOf(k) :
                 (LinesOf(k) = {j} /\ Converted(k, content[j].text) # <<>>) =>
                     metrics[k] = Converted(k, content[j].text)[1]

IsNumeric(row) == row.risk_score # <<>>

\* The rows of S highest score first, equal scores in table order.
RECURSIVE StableFrom(_, _)
StableFrom(df, S) ==
    IF S = {}
    THEN <<>>
    ELSE LET i == CHOOSE m \in Maximal(df, S) : \A k \in Maximal(df, S) : m <= k
         IN <<df[i]>> \o StableFrom(df, S \ {i})

\* The rows with a numeric score, highest first, equal scores in table order.
StableDescending(df) == StableFrom(df, {i \in 1..Len(df) : IsNumeric(df[i])})

(***************************************************************************)
(* C10 as stated: a non-numeric risk_score cell does not fail the load,    *)
(* and the table shown holds the (up to) ten rows with the highest numeric *)
(* risk_score, descending, equal scores in their table order, the rows     *)
(* with a non-numeric score left out.                                      *)
(***************************************************************************)
C10_Original ==
    /\ (tpc # "load_csv_data" /\ has_risk_score) => ~csv_error
    /\ tpc = "shown" => top_10 = head(StableDescending(csv_df), TopN)

====
